---- MODULE Spec2Model ----
(***************************************************************************)
(* Table extraction batch of the OncoKids report pipeline                  *)
(* (notebooks/Extract_all_tables_camelot): extract_tables_from_pdf, the    *)
(* loop over os.listdir(pdf_dir) and the export of pdfs_with_no_tables.csv.*)
(*                                                                         *)
(* A file name is a sequence of tokens; a token is either "." or a string  *)
(* without a dot, so suffix tests and os.path.splitext act on tokens the   *)
(* way they act on characters.                                             *)
(***************************************************************************)
EXTENDS Integers, Sequences, FiniteSets

\* ------------------------------------------------------------------ bounds
MaxFiles == 2       \* entries in pdf_dir
MaxTables == 2      \* tables the engine finds in one document
MaxManual == 1      \* manual re-extractions after a batch
MaxPages == 3       \* pages of a combined PDF

\* Names an entry of pdf_dir can have.
FileNames ==
  { <<"a", ".", "pdf">>,              \* a.pdf
    <<"b", ".", "pdf">>,              \* b.pdf
    <<".", "pdf">>,                   \* .pdf      (hidden file)
    <<".", "pdf", ".", "pdf">>,       \* .pdf.pdf
    <<"a", ".", "PDF">>,              \* a.PDF
    <<"a", "pdf">> }                  \* apdf

Flavors == {"lattice", "stream"}
LineScales == {40, 60}

VARIABLES
  dir,             \* the entries of pdf_dir
  tablesOf,        \* entry -> number of tables the engine finds (default configuration)
  malformed,       \* entries on which camelot.read_pdf raises
  run,             \* "first" or "second" execution of the batch cell
  pc,              \* "idle", "loop", "done", "aborted"
  listing,         \* what os.listdir(pdf_dir) returned for this run
  idx,             \* position of the for loop in listing
  no_tables_pdfs,  \* the list of line 155
  fs,              \* output_folder: path -> content
  writes,          \* the to_csv calls of this run, in order
  calls,           \* the camelot.read_pdf calls of this run, in order
  results,         \* the extract_tables_from_pdf calls that returned, in order
  finished,        \* what each finished run left behind
  pages,           \* segmentation: the markers found in the text of each page
  segpc,           \* segmentation: "idle", "scan", "done"
  scan,            \* segmentation: index of the next page to scan, from 0
  open,            \* segmentation: <<>> or <<the range a start marker opened>>
  boundaries,      \* segmentation: the SpecimenBoundary sequence so far
  skipped          \* segmentation: the ranges reported as PatternConflict

batchVars == <<dir, tablesOf, malformed, run, pc, listing, idx, no_tables_pdfs,
               fs, writes, calls, results, finished>>
segVars == <<pages, segpc, scan, open, boundaries, skipped>>
vars == <<dir, tablesOf, malformed, run, pc, listing, idx, no_tables_pdfs,
          fs, writes, calls, results, finished,
          pages, segpc, scan, open, boundaries, skipped>>

\* ----------------------------------------------------------------- helpers
Range(s) == { s[i] : i \in 1..Len(s) }

Orderings(S) ==
  { s \in [1..Cardinality(S) -> S] : \A x \in S : \E i \in 1..Cardinality(S) : s[i] = x }

IndexStr(i) ==
  CASE i = 0 -> "0" [] i = 1 -> "1" [] i = 2 -> "2" [] i = 3 -> "3"
    [] i = 4 -> "4" [] i = 5 -> "5" [] OTHER -> "9"

\* str.endswith(".pdf")
endswith_pdf_any_case(name) ==
  /\ Len(name) >= 2
  /\ name[Len(name) - 1] = "."
  /\ name[Len(name)] \in {"pdf", "PDF"}
endswith_pdf(name) ==
  /\ Len(name) >= 2
  /\ name[Len(name) - 1] = "."
  /\ name[Len(name)] = "pdf"

\* os.path.splitext(pdf_file)[0]: cut at the last dot, unless only dots
\* precede it (leading dots are not an extension separator).
LastDot(name) ==
  IF \E i \in 1..Len(name) : name[i] = "."
  THEN CHOOSE i \in 1..Len(name) :
         /\ name[i] = "."
         /\ \A j \in (i + 1)..Len(name) : name[j] # "."
  ELSE 0

splitext_root(name) ==
  IF LastDot(name) > 0 /\ \E j \in 1..(LastDot(name) - 1) : name[j] # "."
  THEN SubSeq(name, 1, LastDot(name) - 1)
  ELSE name

report_name(pdf_file) == splitext_root(pdf_file)

\* f"{report_name}_table_camelot_{i}.csv" joined to output_folder
csv_path(report, i) == report \o <<"_table_camelot_", IndexStr(i), ".", "csv">>

no_tables_csv_path == <<"pdfs_with_no_tables", ".", "csv">>

\* ------------------------------------------------------------------ engine
StreamFlavor == "stream"
DefaultFlavor == "lattice"
DefaultLineScale == 60

\* The k-th table camelot returns for a document under a configuration.
Table(pdf_file, flavor, line_scale, k) ==
  [kind |-> "table", src |-> pdf_file, flavor |-> flavor,
   line_scale |-> line_scale, no |-> k]

\* tables = camelot.read_pdf(...): the ordered tables of the document.
read_pdf(pdf_file, flavor, line_scale, n) ==
  [k \in 1..n |-> Table(pdf_file, flavor, line_scale, k)]

Call(pdf_file, flavor, line_scale, by) ==
  [file |-> pdf_file, pages |-> "all", flavor |-> flavor,
   line_scale |-> line_scale, by |-> by]

\* enumerate(tables, start=1)
EnumerateFrom0(tables) == [k \in 1..Len(tables) |-> [i |-> k - 1, table |-> tables[k]]]
Enumerate(tables) == [k \in 1..Len(tables) |-> [i |-> k, table |-> tables[k]]]

\* table.to_csv(csv_path) for every enumerated table, in order
RECURSIVE SaveTables(_, _, _)
SaveTables(folder, report, items) ==
  IF items = <<>> THEN folder
  ELSE LET p == csv_path(report, Head(items).i)
           f1 == [q \in DOMAIN folder \cup {p} |->
                    IF q = p THEN Head(items).table ELSE folder[q]]
       IN SaveTables(f1, report, Tail(items))

WriteLog(pdf_file, report, items) ==
  [k \in 1..Len(items) |->
     [path |-> csv_path(report, items[k].i), file |-> pdf_file,
      i |-> items[k].i, table |-> items[k].table]]

\* --------------------------------------------------------------- the batch
\* no_tables_pdfs = []
StaleNoTables == no_tables_pdfs
InitialNoTables == <<>>

\* if not has_tables: no_tables_pdfs.append(pdf_file)
PrependNoTable(list, pdf_file, has_tables) ==
  IF ~has_tables THEN <<pdf_file>> \o list ELSE list
RecordOutcomeInverted(list, pdf_file, has_tables) ==
  IF has_tables THEN Append(list, pdf_file) ELSE list
RecordOutcome(list, pdf_file, has_tables) ==
  IF ~has_tables THEN Append(list, pdf_file) ELSE list

\* pd.DataFrame(no_tables_pdfs, columns=['PDF_Filename']).to_csv(path, index=False)
ReportWithIndex(list) ==
  [kind |-> "report", header |-> <<"", "PDF_Filename">>,
   rows |-> [k \in 1..Len(list) |-> <<IndexStr(k - 1), list[k]>>]]
ReportContent(list) ==
  [kind |-> "report", header |-> <<"PDF_Filename">>,
   rows |-> [k \in 1..Len(list) |-> <<list[k]>>]]

Snapshot(status, folder, list) ==
  [listing |-> listing, pc |-> status, fs |-> folder, no_tables |-> list]

SegIdle ==
  /\ pages = <<>>
  /\ segpc = "idle"
  /\ scan = 0
  /\ open = <<>>
  /\ boundaries = <<>>
  /\ skipped = <<>>

Init ==
  /\ dir \in { d \in SUBSET FileNames : Cardinality(d) <= MaxFiles }
  /\ tablesOf \in [dir -> 0..MaxTables]
  /\ malformed \in SUBSET dir
  /\ run = "first"
  /\ pc = "idle"
  /\ listing = <<>>
  /\ idx = 1
  /\ no_tables_pdfs = <<>>
  /\ fs = <<>>
  /\ writes = <<>>
  /\ calls = <<>>
  /\ results = <<>>
  /\ finished = <<>>
  /\ SegIdle

\* The cell starts: no_tables_pdfs = [] and os.listdir(pdf_dir) is evaluated.
\* The cell can be executed again once the previous execution has ended.
StartRun ==
  /\ \/ pc = "idle" /\ run' = run
     \/ pc \in {"done", "aborted"} /\ run = "first" /\ run' = "second"
  /\ \E l \in Orderings(dir) : listing' = l
  /\ no_tables_pdfs' = InitialNoTables
  /\ idx' = 1
  /\ pc' = "loop"
  /\ writes' = <<>>
  /\ calls' = <<>>
  /\ results' = <<>>
  /\ UNCHANGED <<dir, tablesOf, malformed, fs, finished>>
  /\ UNCHANGED segVars

InLoop == pc = "loop" /\ idx <= Len(listing)

\* if pdf_file.endswith(".pdf") is false: next entry
SkipEntry ==
  /\ InLoop
  /\ ~endswith_pdf(listing[idx])
  /\ idx' = idx + 1
  /\ UNCHANGED <<dir, tablesOf, malformed, run, pc, listing, no_tables_pdfs,
                 fs, writes, calls, results, finished>>
  /\ UNCHANGED segVars

\* A keyword argument is absent (<<>>) or given (<<value>>); an absent one
\* takes the value extract_tables_from_pdf passes to camelot.read_pdf.
Param(arg, default) == IF arg = <<>> THEN default ELSE arg[1]

\* The engine invocations extract_tables_from_pdf makes for one document.
EngineCallsWithFallback(pdf_file, flavor, line_scale, by, n) ==
  IF n = 0
  THEN <<Call(pdf_file, flavor, line_scale, by), Call(pdf_file, "stream", line_scale, by)>>
  ELSE <<Call(pdf_file, flavor, line_scale, by)>>
EngineCalls(pdf_file, flavor, line_scale, by, n) ==
  <<Call(pdf_file, flavor, line_scale, by)>>

\* camelot.read_pdf raises: nothing catches it, the cell stops.
ExtractRaises ==
  /\ InLoop
  /\ endswith_pdf(listing[idx])
  /\ listing[idx] \in malformed
  /\ calls' = calls \o <<Call(listing[idx], DefaultFlavor, DefaultLineScale, "batch")>>
  /\ pc' = "aborted"
  /\ finished' = Append(finished, Snapshot("aborted", fs, no_tables_pdfs))
  /\ UNCHANGED <<dir, tablesOf, malformed, run, listing, idx, no_tables_pdfs,
                 fs, writes, results>>
  /\ UNCHANGED segVars

\* extract_tables_from_pdf(pdf_dir, pdf_file, output_folder, ...): the whole
\* call on a document in which the engine finds n tables.
ExtractBody(pdf_file, flavor_arg, line_scale_arg, by, n) ==
  LET flavor == Param(flavor_arg, DefaultFlavor)
      line_scale == Param(line_scale_arg, DefaultLineScale)
      tables == read_pdf(pdf_file, flavor, line_scale, n)
      report == report_name(pdf_file)
      items == Enumerate(tables)
      has_tables == Len(tables) # 0
  IN /\ calls' = calls \o EngineCalls(pdf_file, flavor, line_scale, by, n)
     /\ fs' = SaveTables(fs, report, items)
     /\ writes' = writes \o WriteLog(pdf_file, report, items)
     /\ results' = Append(results, [file |-> pdf_file, has_tables |-> has_tables,
                                    by |-> by, flavor_arg |-> flavor_arg,
                                    line_scale_arg |-> line_scale_arg])

ExtractNoTables ==
  /\ InLoop
  /\ endswith_pdf(listing[idx])
  /\ listing[idx] \notin malformed
  /\ tablesOf[listing[idx]] = 0
  /\ ExtractBody(listing[idx], <<>>, <<>>, "batch", 0)
  /\ no_tables_pdfs' = RecordOutcome(no_tables_pdfs, listing[idx], FALSE)
  /\ idx' = idx + 1
  /\ UNCHANGED <<dir, tablesOf, malformed, run, pc, listing, finished>>
  /\ UNCHANGED segVars

ExtractTables ==
  /\ InLoop
  /\ endswith_pdf(listing[idx])
  /\ listing[idx] \notin malformed
  /\ tablesOf[listing[idx]] >= 1
  /\ ExtractBody(listing[idx], <<>>, <<>>, "batch", tablesOf[listing[idx]])
  /\ no_tables_pdfs' = RecordOutcome(no_tables_pdfs, listing[idx], TRUE)
  /\ idx' = idx + 1
  /\ UNCHANGED <<dir, tablesOf, malformed, run, pc, listing, finished>>
  /\ UNCHANGED segVars

\* After the loop: the no-table report is written and the cell ends.
ExportReport ==
  /\ pc = "loop"
  /\ idx > Len(listing)
  /\ LET folder == [q \in DOMAIN fs \cup {no_tables_csv_path} |->
                      IF q = no_tables_csv_path
                      THEN ReportContent(no_tables_pdfs) ELSE fs[q]]
     IN /\ fs' = folder
        /\ finished' = Append(finished, Snapshot("done", folder, no_tables_pdfs))
  /\ pc' = "done"
  /\ UNCHANGED <<dir, tablesOf, malformed, run, listing, idx, no_tables_pdfs,
                 writes, calls, results>>
  /\ UNCHANGED segVars

Next ==
  \/ StartRun
  \/ SkipEntry
  \/ ExtractRaises
  \/ ExtractNoTables
  \/ ExtractTables
  \/ ExportReport

Spec == Init /\ [][Next]_vars

\* ------------------------------------------------ manual re-extraction
\* The optional cell after the batch: a document of no_tables_pdfs is
\* extracted again with the flavor and line scale the caller passes.
ManualCalls == Cardinality({ k \in 1..Len(calls) : calls[k].by = "manual" })

Reprocess ==
  /\ pc = "done"
  /\ ManualCalls < MaxManual
  /\ \E pdf_to_reprocess \in Range(no_tables_pdfs) \cap dir :
     \E flavor_arg \in {<<>>} \cup { <<f>> : f \in Flavors } :
     \E line_scale_arg \in {<<>>} \cup { <<l>> : l \in LineScales } :
     \E n \in 0..MaxTables :
       /\ (Param(flavor_arg, DefaultFlavor) = DefaultFlavor
            /\ Param(line_scale_arg, DefaultLineScale) = DefaultLineScale)
          => n = tablesOf[pdf_to_reprocess]
       /\ ExtractBody(pdf_to_reprocess, flavor_arg, line_scale_arg, "manual", n)
  /\ UNCHANGED <<dir, tablesOf, malformed, run, pc, listing, idx, no_tables_pdfs,
                 finished>>
  /\ UNCHANGED segVars

NextConfig ==
  \/ StartRun
  \/ SkipEntry
  \/ ExtractRaises
  \/ ExtractNoTables
  \/ ExtractTables
  \/ ExportReport
  \/ Reprocess

SpecConfig == Init /\ [][NextConfig]_vars

\* ----------------------------------------------------------- segmentation
\* Pattern Detector and Segmenter (PDF splitting): the pages of a combined
\* PDF are scanned in order; a report-start marker opens a specimen range, a
\* report-end marker closes it, and a range without end marker ends on the
\* page before the next start marker or on the last page of the document.
SpecimenIds == {"S22-1234", "H22-4504"}

\* What the detector finds on a page: the specimen id of a start marker
\* ("" when there is none) and whether the page carries an end marker.
PageMarks == [start : SpecimenIds \cup {""}, end : BOOLEAN]

Documents == UNION { [1..n -> PageMarks] : n \in 1..MaxPages }

PageCount == Len(pages)

Boundary(id, first, last) == [specimenId |-> id, startPage |-> first, endPage |-> last]

\* The end of a range that has no end marker, when the next start marker is
\* on page p.
InferredEndAtNextStart(p) == p
InferredEnd(p) == p - 1

EmittedIds == { boundaries[k].specimenId : k \in 1..Len(boundaries) }

InitSeg ==
  /\ dir = {}
  /\ tablesOf = <<>>
  /\ malformed = {}
  /\ run = "first"
  /\ pc = "idle"
  /\ listing = <<>>
  /\ idx = 1
  /\ no_tables_pdfs = <<>>
  /\ fs = <<>>
  /\ writes = <<>>
  /\ calls = <<>>
  /\ results = <<>>
  /\ finished = <<>>
  /\ pages \in Documents
  /\ segpc = "scan"
  /\ scan = 0
  /\ open = <<>>
  /\ boundaries = <<>>
  /\ skipped = <<>>

Scanning == segpc = "scan" /\ scan < PageCount

Page == pages[scan + 1]

\* The specimen of the open range ("" when none is open).
OpenId == IF open = <<>> THEN "" ELSE open[1].specimenId

\* A page without markers, or an end marker while no range is open.
ScanPlain ==
  /\ Scanning
  /\ Page.start = ""
  /\ (~Page.end \/ open = <<>>)
  /\ scan' = scan + 1
  /\ UNCHANGED <<pages, segpc, open, boundaries, skipped>>
  /\ UNCHANGED batchVars

\* An end marker closes the open range on this page.
ScanEnd ==
  /\ Scanning
  /\ Page.start = ""
  /\ Page.end
  /\ open # <<>>
  /\ boundaries' = Append(boundaries, Boundary(open[1].specimenId, open[1].startPage, scan))
  /\ open' = <<>>
  /\ scan' = scan + 1
  /\ UNCHANGED <<pages, segpc, skipped>>
  /\ UNCHANGED batchVars

\* A start marker: the open range, if any, ends on the page before; the new
\* range opens here and closes here too when the page also has an end marker.
ScanStart ==
  /\ Scanning
  /\ Page.start # ""
  /\ OpenId # Page.start
  /\ LET closed == IF open = <<>> THEN boundaries
                   ELSE Append(boundaries,
                               Boundary(open[1].specimenId, open[1].startPage,
                                        InferredEnd(scan)))
         ids == { closed[k].specimenId : k \in 1..Len(closed) }
     IN /\ Page.start \notin ids
        /\ IF Page.end
           THEN /\ boundaries' = Append(closed, Boundary(Page.start, scan, scan))
                /\ open' = <<>>
           ELSE /\ boundaries' = closed
                /\ open' = <<[specimenId |-> Page.start, startPage |-> scan]>>
  /\ scan' = scan + 1
  /\ UNCHANGED <<pages, segpc, skipped>>
  /\ UNCHANGED batchVars

\* PatternConflict: a start marker for the specimen whose range is still
\* open, or for a specimen already emitted. The conflict is reported and the
\* affected range skipped; an open range of another specimen ends normally.
ScanConflict ==
  /\ Scanning
  /\ Page.start # ""
  /\ (OpenId = Page.start \/ Page.start \in EmittedIds)
  /\ IF open # <<>> /\ OpenId # Page.start
     THEN boundaries' = Append(boundaries,
                               Boundary(open[1].specimenId, open[1].startPage,
                                        InferredEnd(scan)))
     ELSE boundaries' = boundaries
  /\ skipped' = Append(skipped, [specimenId |-> Page.start, page |-> scan])
  /\ open' = <<>>
  /\ scan' = scan + 1
  /\ UNCHANGED <<pages, segpc>>
  /\ UNCHANGED batchVars

\* End of the document: the last range, if still open, runs to the last page.
EndOfDocument ==
  /\ segpc = "scan"
  /\ scan = PageCount
  /\ IF open # <<>>
     THEN boundaries' = Append(boundaries,
                               Boundary(open[1].specimenId, open[1].startPage,
                                        PageCount - 1))
     ELSE boundaries' = boundaries
  /\ open' = <<>>
  /\ segpc' = "done"
  /\ UNCHANGED <<pages, scan, skipped>>
  /\ UNCHANGED batchVars

NextSeg ==
  \/ ScanPlain
  \/ ScanEnd
  \/ ScanStart
  \/ ScanConflict
  \/ EndOfDocument

SpecSeg == InitSeg /\ [][NextSeg]_vars

\* ================================================================ claims
\* Positions of the listing the loop has gone past.
Visited == 1..(idx - 1)

IsDocument(f) == endswith_pdf(f)

BatchWritesOf(f) ==
  SelectSeq(writes, LAMBDA w : w.file = f)

BatchCallsOf(f) ==
  SelectSeq(calls, LAMBDA c : c.file = f /\ c.by = "batch")

IsPrefix(s, t) == Len(s) <= Len(t) /\ SubSeq(t, 1, Len(s)) = s

\* The file name without its extension, with the extension understood as
\* os.path.splitext understands it: the last dot and what follows, unless the
\* name has nothing but dots before that dot.
WithoutExtension(f) ==
  IF \E j \in 1..(Len(f) - 2) : f[j] # "." THEN SubSeq(f, 1, Len(f) - 2) ELSE f

ExpectedCsv(f, i) == WithoutExtension(f) \o <<"_table_camelot_", IndexStr(i), ".", "csv">>

\* C1: every document the loop has gone past for which the engine returned
\* zero tables is in the no-table list and has had no per-table CSV written,
\* and the zero-table outcome did not stop the run: a run ends before the end
\* of the listing only on a document on which the engine raised, and a run
\* that reached the end has extracted every document.
C1_ZeroTablesRecorded ==
  /\ \A j \in Visited :
       (IsDocument(listing[j]) /\ tablesOf[listing[j]] = 0) =>
         /\ listing[j] \in Range(no_tables_pdfs)
         /\ BatchWritesOf(listing[j]) = <<>>
  /\ pc = "aborted" => (idx <= Len(listing) /\ listing[idx] \in malformed)
  /\ pc = "done" =>
       \A f \in dir : IsDocument(f) => \E k \in 1..Len(results) : results[k].file = f

C1_Witness ==
  /\ pc = "done"
  /\ \E j \in 1..Len(listing) : \E k \in 1..Len(listing) :
       /\ j < k
       /\ IsDocument(listing[j]) /\ tablesOf[listing[j]] = 0
       /\ listing[j] \in Range(no_tables_pdfs)
       /\ IsDocument(listing[k]) /\ tablesOf[listing[k]] >= 1
       /\ BatchWritesOf(listing[k]) # <<>>

\* C2: when the engine raises on one document the batch does not abort: the
\* run still extracts every other document of the directory and ends with
\* the no-table report written.
C2_RaiseDoesNotAbort ==
  (pc \in {"done", "aborted"} /\ \E f \in malformed : IsDocument(f)) =>
    /\ \A f \in dir : (IsDocument(f) /\ f \notin malformed) =>
         \E k \in 1..Len(results) : results[k].file = f
    /\ no_tables_csv_path \in DOMAIN fs
    /\ fs[no_tables_csv_path] = ReportContent(no_tables_pdfs)

\* C3: a call of extract_tables_from_pdf on a document in which the engine
\* finds n >= 1 tables writes exactly n CSV files, named
\* <report name>_table_camelot_<i>.csv for i = 1..n, the i-th holding the
\* i-th table the engine returned, touches no other file, and returns True.
C3_Step ==
  (/\ InLoop
   /\ IsDocument(listing[idx])
   /\ listing[idx] \notin malformed
   /\ tablesOf[listing[idx]] >= 1) =>
    LET f == listing[idx]
        n == tablesOf[f]
        tables == read_pdf(f, "lattice", 60, n)
    IN /\ Len(writes') = Len(writes) + n
       /\ \A i \in 1..n :
            /\ writes'[Len(writes) + i].path = ExpectedCsv(f, i)
            /\ writes'[Len(writes) + i].table = tables[i]
            /\ ExpectedCsv(f, i) \in DOMAIN fs'
            /\ fs'[ExpectedCsv(f, i)] = tables[i]
       /\ Cardinality({ ExpectedCsv(f, i) : i \in 1..n }) = n
       /\ DOMAIN fs' = DOMAIN fs \cup { ExpectedCsv(f, i) : i \in 1..n }
       /\ \A q \in DOMAIN fs : q \notin { ExpectedCsv(f, i) : i \in 1..n } => fs'[q] = fs[q]
       /\ Len(results') = Len(results) + 1
       /\ results'[Len(results')].file = f
       /\ results'[Len(results')].has_tables = TRUE

C3_OneCsvPerTable == [][C3_Step]_vars

C3_Witness ==
  /\ pc = "loop"
  /\ \E j \in Visited :
       /\ IsDocument(listing[j])
       /\ tablesOf[listing[j]] >= 2
       /\ Len(BatchWritesOf(listing[j])) = tablesOf[listing[j]]
       /\ results[Len(results)].has_tables

\* C4: after a run that completed, pdfs_with_no_tables.csv has the single
\* column PDF_Filename and one row for each document of the directory in
\* which the engine found no table, none for any other entry, none twice.
NoTableDocuments == { f \in dir : IsDocument(f) /\ tablesOf[f] = 0 }

C4_ReportRows ==
  pc = "done" =>
    /\ no_tables_csv_path \in DOMAIN fs
    /\ LET report == fs[no_tables_csv_path]
       IN /\ report.header = <<"PDF_Filename">>
          /\ \A k \in 1..Len(report.rows) : Len(report.rows[k]) = 1
          /\ { report.rows[k][1] : k \in 1..Len(report.rows) } = NoTableDocuments
          /\ Len(report.rows) = Cardinality(NoTableDocuments)

C4_Witness ==
  /\ pc = "done"
  /\ Len(fs[no_tables_csv_path].rows) >= 1
  /\ \E f \in dir : IsDocument(f) /\ tablesOf[f] >= 1

\* C5 (as stated): a second complete run on the unchanged directory leaves
\* the output folder exactly as the first complete run left it, whatever
\* order the two directory listings had.
C5_IdempotentAnyOrder ==
  (Len(finished) = 2 /\ finished[1].pc = "done" /\ finished[2].pc = "done") =>
    finished[2].fs = finished[1].fs

\* C5 (amended): when the directory listing returns the names in the same
\* order both times, the second run ends as the first did and leaves the
\* output folder, the no-table report included, exactly as the first left it.
C5_IdempotentSameOrder ==
  (Len(finished) = 2 /\ finished[2].listing = finished[1].listing) =>
    /\ finished[2].fs = finished[1].fs
    /\ finished[2].no_tables = finished[1].no_tables
    /\ finished[2].pc = finished[1].pc

C5_Witness ==
  /\ Len(finished) = 2
  /\ finished[2].listing = finished[1].listing
  /\ finished[2].pc = "done"
  /\ Len(finished[2].no_tables) >= 1
  /\ writes # <<>>

C7_OneInvocationPerDocument ==
  /\ \A f \in dir : Len(BatchCallsOf(f)) <= 1
  /\ \A j \in 1..Len(listing) :
       Len(BatchCallsOf(listing[j])) =
         (IF IsDocument(listing[j]) /\ (j < idx \/ (j = idx /\ pc = "aborted"))
          THEN 1 ELSE 0)
  /\ pc = "done" => \A f \in dir : IsDocument(f) => Len(BatchCallsOf(f)) = 1
  /\ \A k \in 1..Len(no_tables_pdfs) :
       /\ Len(BatchCallsOf(no_tables_pdfs[k])) = 1
       /\ BatchCallsOf(no_tables_pdfs[k])[1].flavor = "lattice"
  /\ \A k \in 1..Len(calls) : calls[k].by = "batch"

C7_Witness ==
  /\ pc = "done"
  /\ Len(no_tables_pdfs) >= 1
  /\ Len(calls) = 2

\* C8: the specimen boundaries are monotonically increasing in page index
\* and do not overlap, each has startPage <= endPage and lies inside the
\* document, and together they cover at most pageCount pages.
RECURSIVE PagesCovered(_)
PagesCovered(bs) ==
  IF bs = <<>> THEN 0
  ELSE (Head(bs).endPage - Head(bs).startPage + 1) + PagesCovered(Tail(bs))

C8_BoundariesDisjoint ==
  /\ \A k \in 1..Len(boundaries) :
       /\ boundaries[k].startPage <= boundaries[k].endPage
       /\ 0 <= boundaries[k].startPage
       /\ boundaries[k].endPage < PageCount
  /\ \A k \in 1..Len(boundaries) : \A l \in 1..Len(boundaries) :
       k < l => boundaries[k].endPage < boundaries[l].startPage
  /\ PagesCovered(boundaries) <= PageCount

C8_Witness ==
  /\ segpc = "done"
  /\ Len(boundaries) >= 2
  /\ boundaries[1].endPage > boundaries[1].startPage
  /\ \A q \in 1..PageCount : ~pages[q].end

\* C9: within one run the no-table list only grows at its end, and at every
\* point it is the documents the loop has gone past in which the engine
\* found no table, in the order the loop went past them.
ZeroTableVisited ==
  SelectSeq(SubSeq(listing, 1, idx - 1),
            LAMBDA f : IsDocument(f) /\ tablesOf[f] = 0)

C9_State == pc # "idle" => no_tables_pdfs = ZeroTableVisited

C9_Step == (pc # "idle" /\ run' = run) => IsPrefix(no_tables_pdfs, no_tables_pdfs')

C9_AppendOnly == []C9_State /\ [][C9_Step]_vars

C9_Witness ==
  /\ pc = "loop"
  /\ Len(no_tables_pdfs) >= 2
  /\ no_tables_pdfs[1] # no_tables_pdfs[2]

\* C10: within one run no two tables are written to the same path and no
\* per-table path is the path of pdfs_with_no_tables.csv.
C10_SeparateFiles ==
  /\ \A k \in 1..Len(writes) : \A l \in 1..Len(writes) :
       k # l => writes[k].path # writes[l].path
  /\ \A k \in 1..Len(writes) : writes[k].path # no_tables_csv_path

\* C11: a directory entry whose name does not end in the exact suffix ".pdf"
\* has no effect on a batch run: the engine is never invoked for it, no
\* extraction call is made and no CSV is written for it, it is never in the
\* no-table list nor in a row of the report, and the loop step that meets it
\* changes nothing but the loop position.
HasPdfSuffix(f) == Len(f) >= 2 /\ SubSeq(f, Len(f) - 1, Len(f)) = <<".", "pdf">>

ReportRowsNaming(f) ==
  IF no_tables_csv_path \in DOMAIN fs
  THEN { k \in 1..Len(fs[no_tables_csv_path].rows) :
           \E c \in 1..Len(fs[no_tables_csv_path].rows[k]) :
             fs[no_tables_csv_path].rows[k][c] = f }
  ELSE {}

C11_State ==
  \A f \in dir : ~HasPdfSuffix(f) =>
    /\ \A k \in 1..Len(calls) : calls[k].file # f
    /\ \A k \in 1..Len(results) : results[k].file # f
    /\ \A k \in 1..Len(writes) : writes[k].file # f
    /\ f \notin Range(no_tables_pdfs)
    /\ ReportRowsNaming(f) = {}

C11_Step ==
  (pc = "loop" /\ idx <= Len(listing) /\ ~HasPdfSuffix(listing[idx])) =>
    /\ idx' = idx + 1
    /\ UNCHANGED <<pc, no_tables_pdfs, fs, writes, calls, results, finished>>

C11_NonPdfIgnored == []C11_State /\ [][C11_Step]_vars

C11_Witness ==
  /\ pc = "done"
  /\ \E j \in 1..Len(listing) : \E k \in 1..Len(listing) :
       /\ j < k
       /\ ~HasPdfSuffix(listing[j])
       /\ listing[j][Len(listing[j])] = "PDF"
       /\ tablesOf[listing[j]] = 0
       /\ HasPdfSuffix(listing[k])
       /\ \E c \in 1..Len(calls) : calls[c].file = listing[k]

====
